---- MODULE Spec2Model ----
(***************************************************************************)
(* Model of src/app.py: the comparison routine                             *)
(* get_nasa_similarity_for_location and the Flask handler                  *)
(* calculate_similarity_api that wraps it.                                 *)
(*                                                                         *)
(* One request is followed from the JSON body to the HTTP response.  Each  *)
(* blocking call to requests.get is split into the issue of the request    *)
(* and its completion, so that the order of the outbound fetches is        *)
(* observable.  Scores, thresholds and coordinates are fixed-point numbers *)
(* in hundredths (1.0 is 100).  An image is the feature vector the code    *)
(* obtains from it (imread, resize, flatten), here a pair of pixel         *)
(* intensities; a fetched body may also be undecodable.                    *)
(***************************************************************************)
EXTENDS Integers, Sequences, FiniteSets, TLC

VARIABLES
    pc,                       \* position of the request in the handler / routine
    data,                     \* request.get_json()
    lat, lng, date_str, threshold,   \* handler locals, app.py:119-122
    date1_obj,                \* parsed target date (proleptic ordinal), app.py:26
    fetchLog,                 \* outbound requests.get calls in issue order
    image1_buffer, image2_buffer_week, image2_buffer_two_weeks,
    similarity_week,          \* app.py:75
    similarity_two_weeks,     \* app.py:98
    score,                    \* routine local `score`, app.py:76 and 99
    outcome,                  \* how the routine call of app.py:127 ended
    ret,                      \* the (score, error_message) tuple it returned
    response                  \* the HTTP response of the handler

vars == <<pc, data, lat, lng, date_str, threshold, date1_obj, fetchLog,
          image1_buffer, image2_buffer_week, image2_buffer_two_weeks,
          similarity_week, similarity_two_weeks, score, outcome, ret, response>>

----------------------------------------------------------------------------
(* Bounds and program constants *)

MaxPix == 2                   \* largest pixel intensity of a modelled image

DefaultThreshold == 75        \* 0.75
One == 100                    \* 1.0
delta == 50                   \* 0.5 degrees
WeekDays == 7
TwoWeekDays == 14

----------------------------------------------------------------------------
(* Python values *)

None == <<>>
Some(v) == <<v>>
Val(o) == o[1]

Num(n) == [t |-> "num", v |-> n]
Str == [t |-> "str", v |-> 0]          \* a string that is not a number
Null == [t |-> "null", v |-> 0]
Absent == [t |-> "absent", v |-> 0]    \* key not in the JSON object

DateText(y, s1, m, s2, d) == [t |-> "str", y |-> y, s1 |-> s1, m |-> m, s2 |-> s2, d |-> d]
NoDate == [t |-> "absent", y |-> 0, s1 |-> "", m |-> 0, s2 |-> "", d |-> 0]

----------------------------------------------------------------------------
(* datetime: strptime, timedelta subtraction, strftime *)

IsLeap(y) == (y % 4 = 0 /\ y % 100 # 0) \/ y % 400 = 0

DaysInMonth(y, m) ==
    IF m = 2 THEN (IF IsLeap(y) THEN 29 ELSE 28)
    ELSE IF m \in {4, 6, 9, 11} THEN 30 ELSE 31

RECURSIVE DaysBeforeMonth(_, _)
DaysBeforeMonth(y, m) ==
    IF m = 1 THEN 0 ELSE DaysBeforeMonth(y, m - 1) + DaysInMonth(y, m - 1)

DaysBeforeYear(y) ==
    LET p == y - 1 IN p * 365 + (p \div 4) - (p \div 100) + (p \div 400)

ToOrdinal(y, m, d) == DaysBeforeYear(y) + DaysBeforeMonth(y, m) + d

ValidYMD(y, m, d) ==
    /\ y \in 1..9999
    /\ m \in 1..12
    /\ d \in 1..DaysInMonth(y, m)

\* datetime.strptime(date_str, '%Y-%m-%d'): None stands for ValueError
StrpTime(s) ==
    IF s.s1 = "-" /\ s.s2 = "-" /\ ValidYMD(s.y, s.m, s.d)
    THEN Some(ToOrdinal(s.y, s.m, s.d))
    ELSE None

\* date1_obj - timedelta(days=k): None stands for OverflowError, raised when
\* the result would precede 0001-01-01 (ordinal 1)
MinusDays(n, k) == IF n - k >= 1 THEN Some(n - k) ELSE None

\* strftime('%Y-%m-%d')
StrfTime(n) ==
    LET ymd == CHOOSE t \in ((n \div 366) .. (n \div 365 + 1)) \X (1..12) \X (1..31) :
                   /\ ValidYMD(t[1], t[2], t[3])
                   /\ ToOrdinal(t[1], t[2], t[3]) = n
    IN DateText(ymd[1], "-", ymd[2], "-", ymd[3])

----------------------------------------------------------------------------
(* Images and the similarity metric *)

Images == (0..MaxPix) \X (0..MaxPix)

Picture(px) == [decodable |-> TRUE, pixels |-> px]
Garbage == [decodable |-> FALSE, pixels |-> <<0, 0>>]
Bodies == {Garbage} \cup {Picture(px) : px \in Images}

\* plt.imread + resize + flatten: None stands for the exception imread raises
Vectorize(buf) == IF buf.decodable THEN Some(buf.pixels) ELSE None

Dot(u, v) == u[1] * v[1] + u[2] * v[2]

\* sklearn cosine_similarity in hundredths, truncated; a zero vector is left
\* unnormalised and so scores 0
CosineSimilarity(u, v) ==
    LET n == Dot(u, u) * Dot(v, v)
        q == One * Dot(u, v)
    IN IF n = 0 THEN 0
       ELSE CHOOSE s \in 0..One : s * s * n <= q * q /\ (s + 1) * (s + 1) * n > q * q

----------------------------------------------------------------------------
(* Decisions of the routine and of the handler *)

\* app.py:35
BBox(la, ln) == <<ln - delta, la - delta, ln + delta, la + delta>>

InvalidDateMessage == "Invalid date format. Please use YYYY-MM-DD."
FetchFailedMessage == "Could not retrieve images from NASA."
UnknownErrorMessage == "An unknown error occurred during processing."
NotJsonMessage == "Invalid request. Must be JSON."
MissingFieldsMessage == "Missing one or more required fields"
BadTypeMessage == "Invalid data type for parameters."

\* app.py:78
NeedsFallbackLoose(s, th) == s <= th
NeedsFallback(s, th) == s < th

\* app.py:64
InitialFetchFailureSwallowed == <<Some(0), None>>
InitialFetchFailure == <<None, Some(FetchFailedMessage)>>

\* app.py:92
FallbackFetchFailureFatal(s) == <<None, Some(FetchFailedMessage)>>
FallbackFetchFailure(s) == <<Some(s), None>>

\* app.py:99
FinalScoreBest(week, two_weeks) == IF week > two_weeks THEN week ELSE two_weeks
FinalScore(week, two_weeks) == two_weeks

\* app.py:138-148
StatusOfThresholdFirst(s, th) ==
    IF s < th THEN "SIGNIFICANT_CHANGE_DETECTED"
    ELSE IF s = One THEN "IDENTICAL"
    ELSE "NO_SIGNIFICANT_CHANGE"
StatusOf(s, th) ==
    IF s = One THEN "IDENTICAL"
    ELSE IF s < th THEN "SIGNIFICANT_CHANGE_DETECTED"
    ELSE "NO_SIGNIFICANT_CHANGE"

ErrorResponse(code, msg) ==
    [code |-> code, json |-> TRUE, error |-> Some(msg), status |-> "",
     similarity_score |-> None, threshold_used |-> None]

ScoreResponse(s, th) ==
    [code |-> 200, json |-> TRUE, error |-> None, status |-> StatusOf(s, th),
     similarity_score |-> Some(s), threshold_used |-> Some(th)]

\* what the framework answers when the view raises
FrameworkErrorResponse ==
    [code |-> 500, json |-> FALSE, error |-> None, status |-> "",
     similarity_score |-> None, threshold_used |-> None]

\* `field in data` for the three required fields, app.py:114-115
HasRequiredFields(d) ==
    /\ d.lat.t # "absent"
    /\ d.lng.t # "absent"
    /\ d.date_str.t # "absent"

\* float(x) succeeds, app.py:119-122
FloatOk(x) == x.t = "num"

\* data.get('threshold', 0.75)
ThresholdField(d) == IF d.threshold.t = "absent" THEN Num(DefaultThreshold) ELSE d.threshold

----------------------------------------------------------------------------
(* Requests the model explores *)

Coordinates == {Num(-347), Str, Absent}

DateStrings ==
    { DateText(2024, "-", 3, "-", 5),       \* week prior falls in a leap February
      DateText(2024, "-", 1, "-", 3),       \* both reference dates in the previous year
      DateText(1, "-", 1, "-", 10),         \* week prior exists, two weeks prior does not
      DateText(1, "-", 1, "-", 3),          \* week prior does not exist
      DateText(2024, "/", 1, "/", 1),       \* wrong separators
      DateText(2023, "-", 2, "-", 30),      \* no such day
      DateText(2024, "-", 13, "-", 1),      \* no such month
      NoDate }

Thresholds == {Absent, Num(80), Num(150), Str, Null}

Requests ==
    [json : {TRUE}, lat : Coordinates, lng : Coordinates,
     date_str : DateStrings, threshold : Thresholds]
    \cup {[json |-> FALSE, lat |-> Absent, lng |-> Absent,
           date_str |-> NoDate, threshold |-> Absent]}

----------------------------------------------------------------------------
(* State machine *)

Init ==
    /\ pc = "validate"
    /\ data \in Requests
    /\ lat = 0
    /\ lng = 0
    /\ date_str = NoDate
    /\ threshold = 0
    /\ date1_obj = 0
    /\ fetchLog = <<>>
    /\ image1_buffer = None
    /\ image2_buffer_week = None
    /\ image2_buffer_two_weeks = None
    /\ similarity_week = None
    /\ similarity_two_weeks = None
    /\ score = None
    /\ outcome = "not_called"
    /\ ret = <<None, None>>
    /\ response = None

Request(time) == [time |-> time, bbox |-> BBox(lat, lng), outcome |-> "pending"]

Completed(log, result) == [log EXCEPT ![Len(log)].outcome = result]

\* the routine returns the tuple t to the handler
Return(t) ==
    /\ ret' = t
    /\ outcome' = "returned"
    /\ pc' = "respond"

\* an exception leaves the routine uncaught
Raise ==
    /\ outcome' = "raised"
    /\ pc' = "respond"
    /\ UNCHANGED ret

\* app.py:110-127, up to the call of the routine
Validate ==
    /\ pc = "validate"
    /\ UNCHANGED <<data, date1_obj, fetchLog, image1_buffer, image2_buffer_week,
                   image2_buffer_two_weeks, similarity_week, similarity_two_weeks,
                   score, ret>>
    /\ IF ~data.json
       THEN /\ response' = Some(ErrorResponse(400, NotJsonMessage))
            /\ pc' = "done"
            /\ UNCHANGED <<lat, lng, date_str, threshold, outcome>>
       ELSE IF ~HasRequiredFields(data)
       THEN /\ response' = Some(ErrorResponse(400, MissingFieldsMessage))
            /\ pc' = "done"
            /\ UNCHANGED <<lat, lng, date_str, threshold, outcome>>
       ELSE IF ~(FloatOk(data.lat) /\ FloatOk(data.lng) /\ FloatOk(ThresholdField(data)))
       THEN /\ response' = Some(ErrorResponse(400, BadTypeMessage))
            /\ pc' = "done"
            /\ UNCHANGED <<lat, lng, date_str, threshold, outcome>>
       ELSE /\ lat' = data.lat.v
            /\ lng' = data.lng.v
            /\ date_str' = data.date_str
            /\ threshold' = ThresholdField(data).v
            /\ outcome' = "running"
            /\ pc' = "parse_date"
            /\ UNCHANGED response

\* app.py:25-29
ParseDate ==
    /\ pc = "parse_date"
    /\ UNCHANGED <<data, lat, lng, date_str, threshold, fetchLog, image1_buffer,
                   image2_buffer_week, image2_buffer_two_weeks, similarity_week,
                   similarity_two_weeks, score, response>>
    /\ LET parsed == StrpTime(date_str) IN
       IF parsed = None
       THEN /\ Return(<<None, Some(InvalidDateMessage)>>)
            /\ UNCHANGED date1_obj
       ELSE /\ date1_obj' = Val(parsed)
            /\ pc' = "fetch1"
            /\ UNCHANGED <<outcome, ret>>

\* app.py:31-52, the week-prior date is computed and requests.get is called
\* for the target date
IssueFetch1 ==
    /\ pc = "fetch1"
    /\ UNCHANGED <<data, lat, lng, date_str, threshold, date1_obj, image1_buffer,
                   image2_buffer_week, image2_buffer_two_weeks, similarity_week,
                   similarity_two_weeks, score, response>>
    /\ IF MinusDays(date1_obj, WeekDays) = None
       THEN /\ Raise
            /\ UNCHANGED fetchLog
       ELSE /\ fetchLog' = Append(fetchLog, Request(date_str))
            /\ pc' = "await1"
            /\ UNCHANGED <<outcome, ret>>

\* app.py:52-54 and 62-64, the call returns or raises RequestException
CompleteFetch1 ==
    /\ pc = "await1"
    /\ UNCHANGED <<data, lat, lng, date_str, threshold, date1_obj,
                   image2_buffer_week, image2_buffer_two_weeks, similarity_week,
                   similarity_two_weeks, score, response>>
    /\ \/ /\ fetchLog' = Completed(fetchLog, "fail")
          /\ Return(InitialFetchFailure)
          /\ UNCHANGED image1_buffer
       \/ \E body \in Bodies :
          /\ fetchLog' = Completed(fetchLog, "ok")
          /\ image1_buffer' = Some(body)
          /\ pc' = "fetch2"
          /\ UNCHANGED <<outcome, ret>>

\* app.py:56-58, requests.get is called for the week-prior date
IssueFetch2 ==
    /\ pc = "fetch2"
    /\ fetchLog' = Append(fetchLog, Request(StrfTime(Val(MinusDays(date1_obj, WeekDays)))))
    /\ pc' = "await2"
    /\ UNCHANGED <<data, lat, lng, date_str, threshold, date1_obj, image1_buffer,
                   image2_buffer_week, image2_buffer_two_weeks, similarity_week,
                   similarity_two_weeks, score, outcome, ret, response>>

\* app.py:58-64
CompleteFetch2 ==
    /\ pc = "await2"
    /\ UNCHANGED <<data, lat, lng, date_str, threshold, date1_obj, image1_buffer,
                   image2_buffer_two_weeks, similarity_week, similarity_two_weeks,
                   score, response>>
    /\ \/ /\ fetchLog' = Completed(fetchLog, "fail")
          /\ Return(InitialFetchFailure)
          /\ UNCHANGED image2_buffer_week
       \/ \E body \in Bodies :
          /\ fetchLog' = Completed(fetchLog, "ok")
          /\ image2_buffer_week' = Some(body)
          /\ pc' = "score_week"
          /\ UNCHANGED <<outcome, ret>>

\* app.py:66-81 and 101
ScoreWeek ==
    /\ pc = "score_week"
    /\ UNCHANGED <<data, lat, lng, date_str, threshold, date1_obj, fetchLog,
                   image1_buffer, image2_buffer_week, image2_buffer_two_weeks,
                   similarity_two_weeks, response>>
    /\ LET vec1 == Vectorize(Val(image1_buffer))
           vec2_week == Vectorize(Val(image2_buffer_week))
       IN IF vec1 = None \/ vec2_week = None
          THEN /\ Raise
               /\ UNCHANGED <<similarity_week, score>>
          ELSE LET s == CosineSimilarity(Val(vec1), Val(vec2_week)) IN
               /\ similarity_week' = Some(s)
               /\ score' = Some(s)
               /\ IF ~NeedsFallback(s, threshold)
                  THEN Return(<<Some(s), None>>)
                  ELSE IF MinusDays(date1_obj, TwoWeekDays) = None
                  THEN Raise
                  ELSE /\ pc' = "fetch_fallback"
                       /\ UNCHANGED <<outcome, ret>>

\* app.py:84-86, requests.get is called for the two-weeks-prior date
IssueFallback ==
    /\ pc = "fetch_fallback"
    /\ fetchLog' = Append(fetchLog, Request(StrfTime(Val(MinusDays(date1_obj, TwoWeekDays)))))
    /\ pc' = "await_fallback"
    /\ UNCHANGED <<data, lat, lng, date_str, threshold, date1_obj, image1_buffer,
                   image2_buffer_week, image2_buffer_two_weeks, similarity_week,
                   similarity_two_weeks, score, outcome, ret, response>>

\* a variant that asks again after a failed fallback fetch
CompleteFallbackRetry ==
    /\ pc = "await_fallback"
    /\ UNCHANGED <<data, lat, lng, date_str, threshold, date1_obj, image1_buffer,
                   image2_buffer_week, similarity_week, similarity_two_weeks,
                   score, response>>
    /\ \/ /\ fetchLog' = Completed(fetchLog, "fail")
          /\ IF Len(fetchLog) < 4
             THEN /\ pc' = "fetch_fallback"
                  /\ UNCHANGED <<outcome, ret>>
             ELSE Return(FallbackFetchFailure(Val(score)))
          /\ UNCHANGED image2_buffer_two_weeks
       \/ \E body \in Bodies :
          /\ fetchLog' = Completed(fetchLog, "ok")
          /\ image2_buffer_two_weeks' = Some(body)
          /\ pc' = "score_two_weeks"
          /\ UNCHANGED <<outcome, ret>>

\* app.py:86-92
CompleteFallback ==
    /\ pc = "await_fallback"
    /\ UNCHANGED <<data, lat, lng, date_str, threshold, date1_obj, image1_buffer,
                   image2_buffer_week, similarity_week, similarity_two_weeks,
                   score, response>>
    /\ \/ /\ fetchLog' = Completed(fetchLog, "fail")
          /\ Return(FallbackFetchFailure(Val(score)))
          /\ UNCHANGED image2_buffer_two_weeks
       \/ \E body \in Bodies :
          /\ fetchLog' = Completed(fetchLog, "ok")
          /\ image2_buffer_two_weeks' = Some(body)
          /\ pc' = "score_two_weeks"
          /\ UNCHANGED <<outcome, ret>>

\* app.py:94-101
ScoreTwoWeeks ==
    /\ pc = "score_two_weeks"
    /\ UNCHANGED <<data, lat, lng, date_str, threshold, date1_obj, fetchLog,
                   image1_buffer, image2_buffer_week, image2_buffer_two_weeks,
                   similarity_week, response>>
    /\ LET vec1 == Vectorize(Val(image1_buffer))
           vec2_two_weeks == Vectorize(Val(image2_buffer_two_weeks))
       IN IF vec2_two_weeks = None
          THEN /\ Raise
               /\ UNCHANGED <<similarity_two_weeks, score>>
          ELSE LET s == CosineSimilarity(Val(vec1), Val(vec2_two_weeks)) IN
               /\ similarity_two_weeks' = Some(s)
               /\ score' = Some(FinalScore(Val(score), s))
               /\ Return(<<Some(FinalScore(Val(score), s)), None>>)

\* app.py:127-160, the routine returned (score, error_message)
Respond ==
    /\ pc = "respond"
    /\ outcome = "returned"
    /\ response' =
          IF ret[2] # None
          THEN Some(ErrorResponse(502, Val(ret[2])))
          ELSE IF ret[1] # None
          THEN Some(ScoreResponse(Val(ret[1]), threshold))
          ELSE Some(ErrorResponse(500, UnknownErrorMessage))
    /\ pc' = "done"
    /\ UNCHANGED <<data, lat, lng, date_str, threshold, date1_obj, fetchLog,
                   image1_buffer, image2_buffer_week, image2_buffer_two_weeks,
                   similarity_week, similarity_two_weeks, score, outcome, ret>>

\* app.py:127, the routine raised: the exception leaves the view function
\* and the framework answers for it
Propagate ==
    /\ pc = "respond"
    /\ outcome = "raised"
    /\ response' = Some(FrameworkErrorResponse)
    /\ pc' = "done"
    /\ UNCHANGED <<data, lat, lng, date_str, threshold, date1_obj, fetchLog,
                   image1_buffer, image2_buffer_week, image2_buffer_two_weeks,
                   similarity_week, similarity_two_weeks, score, outcome, ret>>

Next ==
    \/ Validate
    \/ ParseDate
    \/ IssueFetch1
    \/ CompleteFetch1
    \/ IssueFetch2
    \/ CompleteFetch2
    \/ ScoreWeek
    \/ IssueFallback
    \/ CompleteFallback
    \/ ScoreTwoWeeks
    \/ Respond
    \/ Propagate

Spec == Init /\ [][Next]_vars

TypeOK ==
    /\ pc \in {"validate", "parse_date", "fetch1", "await1", "fetch2", "await2",
               "score_week", "fetch_fallback", "await_fallback", "score_two_weeks",
               "respond", "done"}
    /\ outcome \in {"not_called", "running", "returned", "raised"}
    /\ Len(fetchLog) <= 3
    /\ (pc = "done") = (response # None)

----------------------------------------------------------------------------
(* Vocabulary of the properties *)

Statuses == {"IDENTICAL", "SIGNIFICANT_CHANGE_DETECTED", "NO_SIGNIFICANT_CHANGE"}

Ended == outcome \in {"returned", "raised"}
Answered == pc = "done"
Resp == Val(response)

FetchOk(i) == Len(fetchLog) >= i /\ fetchLog[i].outcome = "ok"
FetchFailed(i) == Len(fetchLog) >= i /\ fetchLog[i].outcome = "fail"

\* the day a logged request asks for, read back from its TIME parameter
TimeOrdinal(i) == Val(StrpTime(fetchLog[i].time))

WeekScoreBelowThreshold == similarity_week # None /\ Val(similarity_week) < threshold
WeekScoreAtLeastThreshold == similarity_week # None /\ Val(similarity_week) >= threshold

\* the similarity of the target image and the two-weeks-prior image, from the
\* fetched bodies
TwoWeekScoreOfBodies ==
    CosineSimilarity(Val(image1_buffer).pixels, Val(image2_buffer_two_weeks).pixels)

----------------------------------------------------------------------------
(* Properties *)

\* C1: every call of the routine that has ended yielded exactly one of a
\* score or an error message, never both and never neither.
C1_ExactlyOneOfScoreOrError ==
    Ended => ((ret[1] # None) # (ret[2] # None))

\* C2: a request with numeric lat/lng whose date_str does not parse as
\* YYYY-MM-DD is answered 400 and no outbound fetch is made.
C2_MalformedDateIs400 ==
    (Answered /\ outcome # "not_called" /\ StrpTime(date_str) = None)
        => (Resp.code = 400 /\ Len(fetchLog) = 0)

\* C3: both initial fetches succeeded, the week-prior score is below the
\* threshold and the fallback fetch failed: the routine returns the week-prior
\* score and the response is a 200 with a status body carrying that score.
C3_FallbackFailureKeepsWeekScore ==
    (Answered /\ FetchOk(1) /\ FetchOk(2) /\ WeekScoreBelowThreshold /\ FetchFailed(3))
        => /\ outcome = "returned"
           /\ ret = <<similarity_week, None>>
           /\ Resp.code = 200
           /\ Resp.error = None
           /\ Resp.status \in Statuses
           /\ Resp.similarity_score = similarity_week

C3_Witness ==
    /\ Answered /\ FetchOk(1) /\ FetchOk(2) /\ WeekScoreBelowThreshold /\ FetchFailed(3)
    /\ Resp.code = 200

\* C4: the week-prior score is below the threshold and the fallback fetch
\* succeeded: the score the routine returns is the similarity of the target
\* image and the image of the target date minus 14 days, whatever the
\* week-prior score was and whether or not it reaches the threshold.
C4_FallbackScoreReplaces ==
    (outcome = "returned" /\ WeekScoreBelowThreshold /\ FetchOk(3))
        => /\ TimeOrdinal(3) = date1_obj - TwoWeekDays
           /\ similarity_two_weeks = Some(TwoWeekScoreOfBodies)
           /\ ret = <<similarity_two_weeks, None>>
           /\ (Answered => Resp.similarity_score = similarity_two_weeks)

C4_Witness ==
    /\ Answered /\ outcome = "returned" /\ WeekScoreBelowThreshold /\ FetchOk(3)
    /\ Val(ret[1]) < Val(similarity_week)
    /\ Val(ret[1]) < threshold

\* C5: both required fetches succeeded and the week-prior score is at least
\* the threshold: exactly two fetches were made and the status is IDENTICAL
\* when the score is 1.0 and NO_SIGNIFICANT_CHANGE otherwise.
C5_NoFallbackAtOrAboveThreshold ==
    (Answered /\ FetchOk(1) /\ FetchOk(2) /\ WeekScoreAtLeastThreshold)
        => /\ Len(fetchLog) = 2
           /\ Resp.code = 200
           /\ Resp.similarity_score = similarity_week
           /\ (Resp.status = "IDENTICAL") = (Val(similarity_week) = One)
           /\ (Resp.status = "NO_SIGNIFICANT_CHANGE") = (Val(similarity_week) # One)

C5_Witness ==
    /\ Answered /\ FetchOk(1) /\ FetchOk(2) /\ WeekScoreAtLeastThreshold
    /\ Val(similarity_week) = threshold
    /\ Resp.status = "NO_SIGNIFICANT_CHANGE"

\* C6: an initial fetch failed: the routine returns (None, message), the
\* failed fetch is the last one made, no score was computed and the response
\* is a 502 carrying that message.
C6_InitialFetchFailureIs502 ==
    (Answered /\ (FetchFailed(1) \/ FetchFailed(2)))
        => /\ outcome = "returned"
           /\ ret[1] = None
           /\ ret[2] # None
           /\ fetchLog[Len(fetchLog)].outcome = "fail"
           /\ \A i \in 1..Len(fetchLog) : \A j \in 1..Len(fetchLog) :
                 i # j => fetchLog[i].time # fetchLog[j].time
           /\ similarity_week = None /\ similarity_two_weeks = None /\ score = None
           /\ Resp = ErrorResponse(502, Val(ret[2]))

C6_Witness ==
    Answered /\ FetchOk(1) /\ FetchFailed(2) /\ Resp.code = 502

\* C7: in every 200 response the status is IDENTICAL when the final score is
\* 1.0, else SIGNIFICANT_CHANGE_DETECTED when the score is below the
\* threshold, else NO_SIGNIFICANT_CHANGE; similarity_score is the returned
\* score and threshold_used is the threshold of the request (0.75 when it has
\* none), which is the one the routine compared the week-prior score against.
C7_StatusDerivation ==
    (Answered /\ Resp.code = 200)
        => LET s == Val(ret[1])
               th == Val(Resp.threshold_used)
           IN /\ ret[1] # None
              /\ Resp.similarity_score = ret[1]
              /\ th = (IF data.threshold.t = "absent" THEN DefaultThreshold
                       ELSE data.threshold.v)
              /\ (s = One => Resp.status = "IDENTICAL")
              /\ (s # One /\ s < th => Resp.status = "SIGNIFICANT_CHANGE_DETECTED")
              /\ (s # One /\ s >= th => Resp.status = "NO_SIGNIFICANT_CHANGE")
              /\ (Len(fetchLog) = 3) = (Val(similarity_week) < th)

C7_Witness ==
    /\ Answered /\ Resp.code = 200
    /\ Val(ret[1]) = One /\ Val(Resp.threshold_used) > One
    /\ Resp.status = "IDENTICAL"

\* C8 as stated: every call of the routine makes two or three fetches.
C8_TwoOrThreeFetches ==
    Ended => Len(fetchLog) \in {2, 3}

\* C8 amended: a call never makes more than three fetches; a call that
\* returns a score made two or three, a call that returns the date-format
\* error made none, and a call that returns a fetch error made one or two.
C8_FetchCount ==
    /\ Len(fetchLog) <= 3
    /\ (outcome = "returned" /\ ret[1] # None) => Len(fetchLog) \in {2, 3}
    /\ (outcome = "returned" /\ ret[2] = Some(InvalidDateMessage)) => Len(fetchLog) = 0
    /\ (outcome = "returned" /\ ret[2] = Some(FetchFailedMessage)) => Len(fetchLog) \in {1, 2}

C8_Witness ==
    /\ outcome = "returned" /\ ret[2] = Some(FetchFailedMessage)
    /\ Len(fetchLog) = 1

\* C9: when the routine fails with anything other than a date-parse failure
\* or a fetch failure, the response is a 500 whose JSON body is
\* {"error": "An unknown error occurred during processing."}.
C9_InternalFailureIsJson500 ==
    (Answered /\ outcome = "raised") => Resp = ErrorResponse(500, UnknownErrorMessage)

\* the fetches are issued one at a time, for the target date, then seven days
\* before it, then fourteen days before it; the third only after a week-prior
\* score below the threshold
FetchesOrdered ==
    /\ Len(fetchLog) <= 3
    /\ \A i \in 1..Len(fetchLog) :
          /\ i < Len(fetchLog) => fetchLog[i].outcome = "ok"
          /\ TimeOrdinal(i) = date1_obj - WeekDays * (i - 1)
    /\ Len(fetchLog) = 3 => WeekScoreBelowThreshold

\* C10: the fetches are sequential and ordered (target date, then week prior,
\* then the fallback only after a week-prior score below the threshold), and
\* a week-prior score below the threshold is followed by exactly one fallback
\* fetch.
C10_SequentialFetchesOneFallback ==
    /\ FetchesOrdered
    /\ (Ended /\ WeekScoreBelowThreshold) => Len(fetchLog) = 3

====
